---------------------------- MODULE Spec2Model ----------------------------
(***************************************************************************)
(* Model of the M-30 variable-speed-limit engine:                          *)
(*   - TrafficOptimizer.optimize_traffic      (src/src/optimizer.py)       *)
(*   - DataPreprocessor.create_features       (src/src/preprocessor.py)    *)
(*   - HourlyKPIAnalyzer                      (src/src/kpi_analyzer.py)    *)
(*   - DataPreprocessor.clean_data            (src/src/preprocessor.py)    *)
(*   - the base limit lookup of the callers   (src/main.py)                *)
(*   - the dashboard's session state          (src/frontend/app.py)        *)
(*                                                                         *)
(* Numbers.  The code computes in binary floating point.  Flows and speeds *)
(* produced by the optimizer are held here in fixed point, as integers in  *)
(* units of 1/Scale; quotients are floored to that resolution.  Densities  *)
(* of the preprocessor and the means and percentages of the KPI analyzer   *)
(* are exact rationals n/d, with the IEEE special values NaN, +inf and     *)
(* -inf kept as distinct values because the code can produce them.         *)
(***************************************************************************)
EXTENDS Integers, Sequences, FiniteSets, TLC

VARIABLES
    optimizer,    \* TrafficOptimizer instance: its three configuration fields
    df,           \* the caller's input series handed to optimize_traffic
    df_opt,       \* the series optimize_traffic returned (<<>> before a call)
    called,       \* whether optimize_traffic has returned
    feat_in,      \* the frame handed to create_features
    occ_col,      \* state of its 'ocupacion' column: "absent", "nan" or "values"
    feat_out,     \* the frame create_features returned
    feat_called,  \* whether create_features has returned
    reality,      \* HourlyKPIAnalyzer.reality
    twin,         \* HourlyKPIAnalyzer.twin
    kpi_call,     \* the last query made on the analyzer: [op, hour, window]
    kpi_result,   \* what that query returned
    args,         \* the arguments a TrafficOptimizer is constructed with
    instance,     \* the fields of the TrafficOptimizer the callers share
    series,       \* the rows of the frame the callers optimize
    columns,      \* the column names of that frame
    cut,          \* where the frame is split in two chunks
    results,      \* per call of optimize_traffic: how it ended and its output
    limits_df,    \* the calibration table sensor_limits.csv (<<>> when absent)
    sensor_id,    \* the sensor the pipeline optimizes
    raw,          \* the frame handed to clean_data
    sensor_ids,   \* DataPreprocessor.sensor_ids
    cleaned,      \* the frame clean_data returned
    clean_called, \* whether clean_data has returned
    simulation_running,  \* st.session_state.simulation_running
    selected_sensor,     \* st.session_state.selected_sensor
    current_frame_idx,   \* st.session_state.current_frame_idx
    last_date,           \* st.session_state.last_date
    day_frames,          \* len(daily_data_resampled) per sensor and date
    loop_i               \* next i of the animation loop, None outside it

vars == <<optimizer, df, df_opt, called, feat_in, occ_col, feat_out,
          feat_called, reality, twin, kpi_call, kpi_result,
          args, instance, series, columns, cut, results,
          limits_df, sensor_id,
          raw, sensor_ids, cleaned, clean_called,
          simulation_running, selected_sensor, current_frame_idx,
          last_date, day_frames, loop_i>>

optVars  == <<optimizer, df, df_opt, called>>
featVars == <<feat_in, occ_col, feat_out, feat_called>>
kpiVars  == <<reality, twin, kpi_call, kpi_result>>
runVars  == <<args, instance, series, columns, cut, results,
              limits_df, sensor_id>>
cleanVars == <<raw, sensor_ids, cleaned, clean_called>>
dashVars == <<simulation_running, selected_sensor, current_frame_idx,
              last_date, day_frames, loop_i>>

---------------------------------------------------------------------------
(* Bounds of the model                                                     *)

MaxRows == 1        \* longest series handed to optimize_traffic
MaxFeatRows == 1    \* longest frame handed to create_features
MaxKpiRows == 2     \* longest reality / twin series of the analyzer
MaxHour == 1        \* hours 0..MaxHour occur in the analyzer's series
MaxRunRows == 2     \* longest frame the callers of optimize_traffic split
MaxCleanRows == 2   \* longest frame handed to clean_data

Scale == 10^5       \* fixed-point resolution of optimizer flows and speeds

---------------------------------------------------------------------------
(* Arithmetic helpers                                                      *)

Min(a, b) == IF a < b THEN a ELSE b
Max(a, b) == IF a > b THEN a ELSE b
Abs(a) == IF a < 0 THEN -a ELSE a

\* All sequences over S of length 0..n
SeqUpTo(S, n) == UNION {[1..m -> S] : m \in 0..n}

RECURSIVE InsertSorted(_, _)
InsertSorted(x, s) ==
    IF s = <<>> THEN <<x>>
    ELSE IF x <= Head(s) THEN <<x>> \o s
    ELSE <<Head(s)>> \o InsertSorted(x, Tail(s))

RECURSIVE SortAsc(_)
SortAsc(s) == IF s = <<>> THEN <<>> ELSE InsertSorted(Head(s), SortAsc(Tail(s)))

---------------------------------------------------------------------------
(* TrafficOptimizer                                                        *)

\* math.exp(-(d**2) / (2 * 15**2)) in units of 1/Scale, for integer d >= 0
ExpTable ==
    << 100000, 99778, 99115, 98020, 96507, 94596, 92312, 89683, 86743, 83527,
       80074, 76423, 72615, 68691, 64691, 60653, 56615, 52612, 48675, 44833,
       41111, 37531, 34111, 30865, 27804, 24935, 22263, 19790, 17513, 15430,
       13534, 11818, 10274, 8892, 7662, 6573, 5613, 4773, 4040, 3405, 2857,
       2386, 1984, 1643, 1354, 1111, 908, 738, 598, 482, 387, 309, 246, 195,
       153, 120, 94, 73, 57, 44, 34, 26, 20, 15, 11, 8, 6, 5, 3, 3, 2, 1, 1,
       1, 1 >>

Gauss(d) == IF d + 1 <= Len(ExpTable) THEN ExpTable[d + 1] ELSE 0

compliance_rate_tenths == 8     \* compliance_rate = 0.8
max_improvement_pct == 15       \* max_improvement = 0.15

\* Mutant of round_speed: the speed is truncated to the multiple of 10 below
round_speed_Floor(speed) == 10 * (speed \div (10 * Scale))

\* int(round(speed / 10.0) * 10): Python's round is round-half-to-even.
\* speed is in units of 1/Scale; the result is in km/h.
round_speed(speed) ==
    LET unit == 10 * Scale
        t == speed \div unit
        r == speed % unit
    IN  IF 2 * r > unit THEN 10 * (t + 1)
        ELSE IF 2 * r < unit THEN 10 * t
        ELSE IF t % 2 = 0 THEN 10 * t ELSE 10 * (t + 1)

\* Mutant of limit_candidates: a base limit missing from the tens is not added
limit_candidates_NoAppend(base) ==
    LET n == Cardinality({i \in 1..9 : 10 * i <= base})
    IN  [i \in 1..n |-> 10 * i]

\* Mutant of limit_candidates: the filter l <= max_limit_int is forgotten
limit_candidates_Unfiltered(base) ==
    LET tens == [i \in 1..9 |-> 10 * i]
        has == \E i \in 1..9 : tens[i] = base
    IN  SortAsc(IF has THEN tens ELSE Append(tens, base))

\* limit_candidates: [l for l in range(10, 100, 10) if l <= max_limit_int],
\* plus max_limit_int when missing, sorted
limit_candidates(base) ==
    LET n == Cardinality({i \in 1..9 : 10 * i <= base})
        tens == [i \in 1..n |-> 10 * i]
        has == \E i \in 1..n : tens[i] = base
    IN  SortAsc(IF has THEN tens ELSE Append(tens, base))

\* Mutant of CapFlow: the capacity clamp is forgotten
CapFlow_NoCap(boosted, q_max) == boosted

\* min(flujo_real * (1 + real_alpha_improvement), q_max), units of 1/Scale
CapFlow(boosted, q_max) == Min(boosted, q_max * Scale)

\* Mutant of Predict: the gap is taken as velocidad_real - limit
Predict_GapFlipped(limit, row, q_max) ==
    LET gap == row.vmed - limit
        alpha == IF gap >= -5
                 THEN (max_improvement_pct * Gauss(Abs(gap - 10))) \div 100
                 ELSE 0
        real_alpha_improvement == (alpha * compliance_rate_tenths) \div 10
        flow0 == CapFlow(row.intensidad * (Scale + real_alpha_improvement), q_max)
        speed0 == IF row.density > 0 THEN flow0 \div row.density
                  ELSE limit * Scale
    IN  IF speed0 > limit * Scale
        THEN [flow |-> limit * Scale * row.density, speed |-> limit * Scale,
              limit |-> limit]
        ELSE [flow |-> flow0, speed |-> speed0, limit |-> limit]

\* Mutant of Predict: the compliance rate is not applied to alpha
Predict_FullCompliance(limit, row, q_max) ==
    LET gap == limit - row.vmed
        alpha == IF gap >= -5
                 THEN (max_improvement_pct * Gauss(Abs(gap - 10))) \div 100
                 ELSE 0
        real_alpha_improvement == alpha
        flow0 == CapFlow(row.intensidad * (Scale + real_alpha_improvement), q_max)
        speed0 == IF row.density > 0 THEN flow0 \div row.density
                  ELSE limit * Scale
    IN  IF speed0 > limit * Scale
        THEN [flow |-> limit * Scale * row.density, speed |-> limit * Scale,
              limit |-> limit]
        ELSE [flow |-> flow0, speed |-> speed0, limit |-> limit]

\* One pass of the candidate loop body up to the consistency clamp:
\* the predicted (flow, speed) under `limit`
Predict(limit, row, q_max) ==
    LET gap == limit - row.vmed
        alpha == IF gap >= -5
                 THEN (max_improvement_pct * Gauss(Abs(gap - 10))) \div 100
                 ELSE 0
        real_alpha_improvement == (alpha * compliance_rate_tenths) \div 10
        flow0 == CapFlow(row.intensidad * (Scale + real_alpha_improvement), q_max)
        speed0 == IF row.density > 0 THEN flow0 \div row.density
                  ELSE limit * Scale
    IN  IF speed0 > limit * Scale
        THEN [flow |-> limit * Scale * row.density, speed |-> limit * Scale,
              limit |-> limit]
        ELSE [flow |-> flow0, speed |-> speed0, limit |-> limit]

\* Mutant of Select: on a tie of flow the later candidate wins unless slower
Select_LastWins(best, p) ==
    IF p.flow > best.flow THEN p
    ELSE IF p.flow = best.flow /\ p.speed >= best.speed
         THEN [best EXCEPT !.speed = p.speed, !.limit = p.limit]
         ELSE best

\* Selection criteria: maximise flow, tie-break on higher speed
Select(best, p) ==
    IF p.flow > best.flow THEN p
    ELSE IF p.flow = best.flow /\ p.speed > best.speed
         THEN [best EXCEPT !.speed = p.speed, !.limit = p.limit]
         ELSE best

RECURSIVE SearchLoop(_, _, _, _, _)
SearchLoop(cands, i, best, row, q_max) ==
    IF i > Len(cands) THEN best
    ELSE SearchLoop(cands, i + 1, Select(best, Predict(cands[i], row, q_max)),
                    row, q_max)

\* Mutant of IsFreeFlow: the speed threshold slips from 40 to 50
IsFreeFlow_Speed50(row, k_crit) ==
    /\ row.density * 10 < k_crit * 8
    /\ row.vmed > 50

\* Mutant of IsFreeFlow: the density test is <= instead of <
IsFreeFlow_Le(row, k_crit) ==
    /\ row.density * 10 <= k_crit * 8
    /\ row.vmed > 40

\* is_low_density and is_normal_speed
IsFreeFlow(row, k_crit) ==
    /\ row.density * 10 < k_crit * 8
    /\ row.vmed > 40

\* Mutant of FinalFlow: the max-with-reality floor is forgotten
FinalFlow_NoFloor(best_flow, flujo_real) == best_flow

\* final_flow = max(best_flow, flujo_real)
FinalFlow(best_flow, flujo_real) == Max(best_flow, flujo_real * Scale)

\* final_speed = min(final_flow / densidad_real or velocidad_real, base)
FinalSpeed(final_flow, row, base) ==
    Min(IF row.density > 0 THEN final_flow \div row.density
        ELSE row.vmed * Scale,
        base * Scale)

\* simular_escenario_avanzado(row): (flow, speed, limit), flow and speed in
\* units of 1/Scale
simular_escenario_avanzado(row, k_crit, q_max, base) ==
    IF IsFreeFlow(row, k_crit)
    THEN [flow |-> row.intensidad * Scale, speed |-> row.vmed * Scale,
          limit |-> base]
    ELSE LET best == SearchLoop(limit_candidates(base), 1,
                                [flow |-> -Scale, speed |-> -Scale, limit |-> base],
                                row, q_max)
             final_flow == FinalFlow(best.flow, row.intensidad)
         IN  [flow |-> final_flow,
              speed |-> FinalSpeed(final_flow, row, base),
              limit |-> best.limit]

\* The row optimize_traffic returns for `row`: the input columns plus
\* intensidad_opt, velocidad_opt (rounded), limite_dinamico and the aliases
OptimizedRow(row, k_crit, q_max, base) ==
    LET r == simular_escenario_avanzado(row, k_crit, q_max, base)
        v == round_speed(r.speed)
        new == [intensidad_opt |-> r.flow, velocidad_opt |-> v,
                limite_dinamico |-> r.limit,
                simulated_speed |-> v, optimal_speed_limit |-> r.limit]
    IN  new @@ row

\* Observations handed to the optimizer (veh/h, km/h, veh/km).  Any frame
\* with these columns can be passed; the rows include those create_features
\* produces (density = flow / speed when speed > 10 and flow > 0).
FlowVals == {0, 1000, 1200, 2000}
SpeedVals == {0, 20, 45, 50, 100}
DensityVals == {0, 20, 60}
OptRows == [intensidad : FlowVals, vmed : SpeedVals, density : DensityVals]

\* Configurations the optimizer is built with: both overrides supplied and
\* not zero.  The frames of OptInit hold the three columns the optimizer
\* reads, so every call of this specification returns (see optimize_traffic
\* below for the other ways a call ends).
KcritVals == {25, 80}
QmaxVals == {1100, 1800}
BaseVals == {10, 50, 86, 90, 120}

OptInit ==
    /\ optimizer \in [critical_density : KcritVals, max_capacity : QmaxVals,
                      base_speed_limit : BaseVals]
    /\ df \in SeqUpTo(OptRows, MaxRows)
    /\ df_opt = <<>>
    /\ called = FALSE

\* optimize_traffic(df)
OptimizeTraffic ==
    /\ df_opt' = [i \in 1..Len(df) |->
                    OptimizedRow(df[i], optimizer.critical_density,
                                 optimizer.max_capacity,
                                 optimizer.base_speed_limit)]
    /\ called' = TRUE
    /\ UNCHANGED <<optimizer, df>>
    /\ UNCHANGED <<featVars, kpiVars, runVars, cleanVars, dashVars>>

FeatIdle ==
    /\ feat_in = <<>>
    /\ occ_col = "absent"
    /\ feat_out = <<>>
    /\ feat_called = FALSE

KpiIdle ==
    /\ reality = <<>>
    /\ twin = <<>>
    /\ kpi_call = [op |-> "none", hour |-> 0, window |-> 0]
    /\ kpi_result = <<>>

OptIdle ==
    /\ optimizer = [critical_density |-> 25, max_capacity |-> 1800,
                    base_speed_limit |-> 90]
    /\ df = <<>>
    /\ df_opt = <<>>
    /\ called = FALSE

\* None, the default of both override arguments.  Overrides are numbers
\* >= 0 in this model, so -1 is free to stand for it.
None == -1

\* The calls of optimize_traffic the callers make: a first call on the whole
\* frame, the same call again on the same instance, the same call on another
\* instance built with the same arguments, and one call per chunk
Slots == {"first", "again", "other", "left", "right"}

\* A call that has not been made
NotRun == [status |-> "not run", out |-> <<>>, estimated |-> {}]

RunIdle ==
    /\ args = [critical_density_override |-> None,
               max_capacity_override |-> None, base_speed_limit |-> 90]
    /\ instance = [critical_density |-> None, max_capacity |-> None,
                   base_speed_limit |-> 90]
    /\ series = <<>>
    /\ columns = {}
    /\ cut = 0
    /\ results = [s \in Slots |-> NotRun]
    /\ limits_df = <<>>
    /\ sensor_id = 1

CleanIdle ==
    /\ raw = <<>>
    /\ sensor_ids = [given |-> FALSE, ids |-> {}]
    /\ cleaned = <<>>
    /\ clean_called = FALSE

\* The dashboard before its script has run
DashIdle ==
    /\ simulation_running = FALSE
    /\ selected_sensor = None
    /\ current_frame_idx = 0
    /\ last_date = None
    /\ day_frames = <<>>
    /\ loop_i = None

OptNext == OptimizeTraffic

InitOpt == OptInit /\ FeatIdle /\ KpiIdle /\ RunIdle /\ CleanIdle
             /\ DashIdle

SpecOpt == InitOpt /\ [][OptNext]_vars

---------------------------------------------------------------------------
(* Properties of optimize_traffic                                          *)

\* k_crit = self.critical_density or ...; q_max = self.max_capacity or ...
\* Every configuration of OptInit supplies both overrides with a non-zero
\* value, so the right-hand side of each `or` is not evaluated.
k_crit == optimizer.critical_density
q_max == optimizer.max_capacity
base_speed_limit == optimizer.base_speed_limit

OutRows == IF called THEN DOMAIN df_opt ELSE {}

\* The best candidate of the search for row i of the input
BestOf(i) ==
    SearchLoop(limit_candidates(base_speed_limit), 1,
               [flow |-> -Scale, speed |-> -Scale, limit |-> base_speed_limit],
               df[i], q_max)

\* C1 - Flow monotonicity: every returned row has an optimized flow
\* (intensidad_opt) greater than or equal to the row's real flow.
C1_FlowMonotone ==
    \A i \in OutRows : df_opt[i].intensidad_opt >= df_opt[i].intensidad * Scale

\* C1 witness: a returned row of the search branch whose best candidate flow
\* is below the real flow, so that the final max-with-reality decides.
C1_Witness ==
    \E i \in OutRows :
        /\ ~IsFreeFlow(df[i], k_crit)
        /\ BestOf(i).flow < df[i].intensidad * Scale
        /\ df_opt[i].intensidad_opt = df[i].intensidad * Scale

\* C2 - Speed bound (as claimed): every returned optimized speed, after the
\* final rounding, is less than or equal to base_speed_limit.
C2_SpeedBound ==
    \A i \in OutRows : df_opt[i].velocidad_opt <= base_speed_limit

\* C3 - Free-flow short-circuit (as claimed): for density < 0.8 * k_crit and
\* speed > 40 the output is exactly (flow, speed, base_speed_limit).
C3_FreeFlowExact ==
    \A i \in OutRows :
        (df[i].density * 10 < k_crit * 8 /\ df[i].vmed > 40)
        => /\ df_opt[i].intensidad_opt = df[i].intensidad * Scale
           /\ df_opt[i].velocidad_opt = df[i].vmed
           /\ df_opt[i].limite_dinamico = base_speed_limit

\* C3 (amended) - for density < 0.8 * k_crit and speed > 40 the optimized flow
\* is the real flow and the dynamic limit is base_speed_limit; the optimized
\* speed is the real speed rounded to a nearest multiple of 10, hence equal to
\* the real speed only when that is a multiple of 10.
C3_FreeFlowRounded ==
    \A i \in OutRows :
        (df[i].density * 10 < k_crit * 8 /\ df[i].vmed > 40)
        => /\ df_opt[i].intensidad_opt = df[i].intensidad * Scale
           /\ df_opt[i].limite_dinamico = base_speed_limit
           /\ df_opt[i].velocidad_opt % 10 = 0
           /\ Abs(df_opt[i].velocidad_opt - df[i].vmed) <= 5
           /\ (df[i].vmed % 10 = 0 => df_opt[i].velocidad_opt = df[i].vmed)

\* C3 witness: a returned free-flow row whose real speed is not a multiple
\* of 10, so that the rounding changes it.
C3_Witness ==
    \E i \in OutRows :
        /\ df[i].density * 10 < k_crit * 8
        /\ df[i].vmed > 40
        /\ df[i].vmed % 10 # 0
        /\ df_opt[i].velocidad_opt # df[i].vmed

\* The scenario flow=1000, speed=50, density=20 under k_crit=25, q_max=1800,
\* base_limit=90
IsScenarioC4(i) ==
    /\ k_crit = 25 /\ q_max = 1800 /\ base_speed_limit = 90
    /\ df[i].intensidad = 1000 /\ df[i].vmed = 50 /\ df[i].density = 20

\* C4 - Boundary scenario (as claimed): the scenario returns
\* (optimized_flow, optimized_speed, dynamic_limit) = (1000, 50, 90).
C4_ScenarioFreeFlow ==
    \A i \in OutRows :
        IsScenarioC4(i)
        => /\ df_opt[i].intensidad_opt = 1000 * Scale
           /\ df_opt[i].velocidad_opt = 50
           /\ df_opt[i].limite_dinamico = 90

\* C4 (amended) - density 20 equals 0.8 * k_crit and is not below it, so the
\* scenario takes the search branch and returns (1120, 60, 60).
C4_ScenarioSearch ==
    \A i \in OutRows :
        IsScenarioC4(i)
        => /\ ~IsFreeFlow(df[i], k_crit)
           /\ df_opt[i].intensidad_opt = 1120 * Scale
           /\ df_opt[i].velocidad_opt = 60
           /\ df_opt[i].limite_dinamico = 60

\* C4 witness: the scenario has been optimized.
C4_Witness == \E i \in OutRows : IsScenarioC4(i)

\* C5 - Capacity bound: every returned optimized flow is at most
\* max(q_max, flow).
C5_CapacityBound ==
    \A i \in OutRows :
        df_opt[i].intensidad_opt <= Max(q_max, df[i].intensidad) * Scale

\* C5 witness: a returned row of the search branch whose boosted flow was cut
\* to q_max, above the real flow.
C5_Witness ==
    \E i \in OutRows :
        /\ ~IsFreeFlow(df[i], k_crit)
        /\ df[i].intensidad < q_max
        /\ df_opt[i].intensidad_opt = q_max * Scale

\* The elements of a list
Range(s) == {s[i] : i \in DOMAIN s}

\* A list in strictly ascending order
IsAscending(s) == \A i, j \in DOMAIN s : i < j => s[i] < s[j]

\* C12 - Candidate generation (as claimed): for every base_speed_limit the
\* candidate list searched is every multiple of 10 from 10 up to
\* base_speed_limit inclusive, plus base_speed_limit itself when it is not a
\* multiple of 10, in ascending order.
C12_CandidatesUpToBase ==
    called =>
        LET c == limit_candidates(base_speed_limit)
        IN  /\ IsAscending(c)
            /\ Range(c) = {10 * i : i \in 1..(base_speed_limit \div 10)}
                              \cup {base_speed_limit}

\* C12 (amended) - the candidate list searched is every multiple of 10 from
\* 10 up to min(base_speed_limit, 90) inclusive, plus base_speed_limit itself
\* when it is not one of them (not a multiple of 10, or above 90), in
\* ascending order.
C12_CandidatesUpTo90 ==
    called =>
        LET c == limit_candidates(base_speed_limit)
        IN  /\ IsAscending(c)
            /\ Range(c) = {10 * i : i \in 1..Min(base_speed_limit \div 10, 9)}
                              \cup {base_speed_limit}

\* C12 witness: a run whose base limit is above 90 or not a multiple of 10,
\* so that the base limit is the extra last candidate.
C12_Witness ==
    /\ called
    /\ (base_speed_limit > 90 \/ base_speed_limit % 10 # 0)
    /\ LET c == limit_candidates(base_speed_limit)
       IN  c[Len(c)] = base_speed_limit /\ Len(c) > 1

\* The scenario flow=1200, speed=20, density=60 under k_crit=25, q_max=1800,
\* base_limit=90
IsScenarioC16(i) ==
    /\ k_crit = 25 /\ q_max = 1800 /\ base_speed_limit = 90
    /\ df[i].intensidad = 1200 /\ df[i].vmed = 20 /\ df[i].density = 60

\* C16 - Congested scenario: the scenario takes the search branch, gets the
\* dynamic limit 30 (= 20 + 10) and an optimized flow between 1200 and 1800.
C16_CongestedScenario ==
    \A i \in OutRows :
        IsScenarioC16(i)
        => /\ ~IsFreeFlow(df[i], k_crit)
           /\ df_opt[i].limite_dinamico = 30
           /\ df_opt[i].intensidad_opt >= 1200 * Scale
           /\ df_opt[i].intensidad_opt <= 1800 * Scale

\* C16 witness: the congested scenario has been optimized, with a gain.
C16_Witness ==
    \E i \in OutRows :
        IsScenarioC16(i) /\ df_opt[i].intensidad_opt > 1200 * Scale

\* The speed simular_escenario_avanzado returns for row i, before rounding
PreRounding(i) ==
    simular_escenario_avanzado(df[i], k_crit, q_max, base_speed_limit).speed

\* C17 - Rounding: every returned velocidad_opt (and its alias
\* simulated_speed) is a multiple of 10 within 5 km/h of the speed before
\* rounding; a speed exactly halfway always goes to the even multiple of 10.
C17_Rounding ==
    \A i \in OutRows :
        /\ df_opt[i].velocidad_opt % 10 = 0
        /\ Abs(df_opt[i].velocidad_opt * Scale - PreRounding(i)) <= 5 * Scale
        /\ df_opt[i].simulated_speed = df_opt[i].velocidad_opt
        /\ (PreRounding(i) % (10 * Scale) = 5 * Scale
            => df_opt[i].velocidad_opt % 20 = 0)

\* C17 witness: a returned row whose speed before rounding is exactly halfway
\* between two multiples of 10, and one whose speed is rounded upwards.
C17_Witness ==
    /\ \E i \in OutRows : PreRounding(i) % (10 * Scale) = 5 * Scale
    /\ \E i \in OutRows : df_opt[i].velocidad_opt * Scale > PreRounding(i)

\* The prediction of the loop body for candidate l on row i
PredictedFor(i, l) == Predict(l, df[i], q_max)

\* Candidate a is preferred to candidate b for row i: more flow; or the same
\* flow and more speed; or the same flow and speed and not a higher limit
Preferred(i, a, b) ==
    LET pa == PredictedFor(i, a)
        pb == PredictedFor(i, b)
    IN  \/ pa.flow > pb.flow
        \/ pa.flow = pb.flow /\ pa.speed > pb.speed
        \/ pa.flow = pb.flow /\ pa.speed = pb.speed /\ a <= b

\* C18 - Candidate selection: in the search branch the returned dynamic limit
\* is a candidate of maximum predicted flow, of highest predicted speed among
\* those, and the lowest limit among the candidates tied on both.
C18_Selection ==
    \A i \in OutRows :
        ~IsFreeFlow(df[i], k_crit)
        => /\ df_opt[i].limite_dinamico
                \in Range(limit_candidates(base_speed_limit))
           /\ \A l \in Range(limit_candidates(base_speed_limit)) :
                Preferred(i, df_opt[i].limite_dinamico, l)

\* C18 witness: a returned row of the search branch where a candidate of a
\* higher limit ties on flow and on speed with the returned one.
C18_Witness ==
    \E i \in OutRows :
        /\ ~IsFreeFlow(df[i], k_crit)
        /\ \E l \in Range(limit_candidates(base_speed_limit)) :
            /\ l > df_opt[i].limite_dinamico
            /\ PredictedFor(i, l).flow
                 = PredictedFor(i, df_opt[i].limite_dinamico).flow
            /\ PredictedFor(i, l).speed
                 = PredictedFor(i, df_opt[i].limite_dinamico).speed
            /\ PredictedFor(i, l).flow > 0

\* Row i was handled by the candidate search (not the free-flow return)
InSearch(i) == ~IsFreeFlow(df[i], k_crit)

\* C25 - Returned speed respects the returned limit (as claimed): for every
\* row of the search branch, whatever its flow, density and q_max, the
\* optimized speed before rounding is at most the returned dynamic limit.
C25_SpeedWithinLimit ==
    \A i \in OutRows :
        InSearch(i) => PreRounding(i) <= df_opt[i].limite_dinamico * Scale

\* C26 - Fundamental relation (as claimed): for every row of the search
\* branch with density > 0, the optimized flow is density times the
\* optimized speed before rounding (up to the truncation of the fixed-point
\* quotient), also when flow / density exceeds the base limit.
C26_Fundamental ==
    \A i \in OutRows :
        (InSearch(i) /\ df[i].density > 0)
        => Abs(df_opt[i].intensidad_opt - df[i].density * PreRounding(i))
             < df[i].density

\* C27 - Bonus ceiling: every returned row has an optimized flow of at most
\* 1.12 times the row's real flow.
C27_BonusCeiling ==
    \A i \in OutRows :
        df_opt[i].intensidad_opt <= 112 * df[i].intensidad * (Scale \div 100)

\* C27 witness: a row of the search branch whose optimized flow is exactly
\* 1.12 times its positive real flow.
C27_Witness ==
    \E i \in OutRows :
        /\ InSearch(i) /\ df[i].intensidad > 0
        /\ df_opt[i].intensidad_opt
             = 112 * df[i].intensidad * (Scale \div 100)

\* C28 - Dynamic limit domain: with an integer base limit of at least 10,
\* every returned dynamic limit is the base limit or a multiple of 10 between
\* 10 and the base limit, and in the search branch it is one of the
\* candidates.
C28_LimitDomain ==
    \A i \in OutRows :
        base_speed_limit >= 10
        => /\ \/ df_opt[i].limite_dinamico = base_speed_limit
              \/ /\ df_opt[i].limite_dinamico % 10 = 0
                 /\ 10 <= df_opt[i].limite_dinamico
                 /\ df_opt[i].limite_dinamico <= base_speed_limit
           /\ df_opt[i].optimal_speed_limit = df_opt[i].limite_dinamico
           /\ InSearch(i)
              => df_opt[i].limite_dinamico
                   \in Range(limit_candidates(base_speed_limit))

\* C28 witness: with a base limit that is not a multiple of 10, a row of the
\* search branch got a multiple of 10 below the base limit; with a base
\* limit above 90, a row of the search branch got 90 or less.
C28_Witness ==
    \/ /\ base_speed_limit % 10 # 0
       /\ \E i \in OutRows :
            InSearch(i) /\ df_opt[i].limite_dinamico < base_speed_limit
    \/ /\ base_speed_limit > 90
       /\ \E i \in OutRows :
            InSearch(i) /\ df_opt[i].limite_dinamico <= 90

---------------------------------------------------------------------------
(* optimize_traffic as its callers see it: parameter resolution, the way   *)
(* a call ends, and several calls on one frame                             *)

\* Python truth value of an override: None and 0 are false
Truthy(x) == x # None /\ x # 0

\* A keyword argument the caller does not pass
NotPassed == -2

\* The default of the base_speed_limit argument
default_base_speed_limit == 90

\* TrafficOptimizer.__init__
Construct(a) ==
    [critical_density |-> a.critical_density_override,
     max_capacity |-> a.max_capacity_override,
     base_speed_limit |-> IF a.base_speed_limit = NotPassed
                          THEN default_base_speed_limit
                          ELSE a.base_speed_limit]

\* The callers' default when no calibrated limit is found
default_base_limit == 90

\* Mutant of base_limit_lookup: the first row of the table is taken,
\* whatever its sensor
base_limit_lookup_FirstRow(limits, id) ==
    IF limits = <<>> THEN default_base_limit
    ELSE limits[1].inferred_limit

\* "Determine base limit" of main (and "Look up Real Limit" of the
\* dashboard): 90, unless the table is not empty and has rows of the sensor;
\* then the inferred_limit of the first of them.  The table holds integers
\* (calibrate_limits writes 50, 70 or 90), on which int() changes nothing.
base_limit_lookup(limits, id) ==
    IF limits = <<>> THEN default_base_limit
    ELSE LET l_row == SelectSeq(limits, LAMBDA r : r.id = id)
         IN  IF l_row = <<>> THEN default_base_limit
             ELSE l_row[1].inferred_limit

\* Mutant of SelfAfterRow: the row function stores the limit it chose in
\* self.base_speed_limit
SelfAfterRow_StoreLimit(self, r) ==
    [self EXCEPT !.base_speed_limit = r.limite_dinamico]

\* The instance after simular_escenario_avanzado has handled one row: the
\* function reads self.base_speed_limit and assigns no attribute of self
SelfAfterRow(self, r) == self

\* Mutant of SelfAfterCall: the call keeps the last dynamic limit as the
\* instance's base limit
SelfAfterCall_StoreLimit(self, out) ==
    IF out = <<>> THEN self
    ELSE [self EXCEPT !.base_speed_limit = out[Len(out)].limite_dinamico]

\* The instance after steps 3 and 4 and the aliases: only columns of df_opt
\* are assigned
SelfAfterCall(self, out) == self

\* Mutant of df_after_call: df_opt is the caller's frame itself, which gets
\* the assigned columns
df_after_call_NoCopy(rows, out) == out

\* The caller's frame after the call: df_opt = df.copy() is a frame of its
\* own, and every assignment of steps 3, 4 and the aliases is to df_opt
df_after_call(rows, out) == rows

\* df_opt.apply(simular_escenario_avanzado, axis=1) and the rounding, row
\* after row; k_crit and q_max are locals read once, self.base_speed_limit
\* is read by every row
RECURSIVE ApplyRows(_, _, _, _, _, _)
ApplyRows(rows, i, self, k, q, acc) ==
    IF i > Len(rows) THEN [out |-> acc, self |-> self]
    ELSE LET r == OptimizedRow(rows[i], k, q, self.base_speed_limit)
         IN  ApplyRows(rows, i + 1, SelfAfterRow(self, r), k, q,
                       Append(acc, r))

\* optimize_traffic(df) on the instance `self`, for a frame with rows `rows`
\* and column names `cols`.
\*  - `self.critical_density or TrafficPhysics.calculate_critical_density(..)`
\*    evaluates the right-hand side when the override is None or 0, and
\*    TrafficPhysics has no such attribute: AttributeError.  Likewise q_max.
\*  - On a frame without rows, apply(..., result_type='expand') returns a copy
\*    of the frame; assigning it to the three new columns raises ValueError
\*    ("Columns must be same length as key") unless the frame has exactly
\*    three columns.
optimize_traffic(self, rows, cols) ==
    IF ~Truthy(self.critical_density)
    THEN [status |-> "AttributeError", out |-> <<>>,
          estimated |-> {"k_crit"}, self |-> self, df |-> rows]
    ELSE IF ~Truthy(self.max_capacity)
    THEN [status |-> "AttributeError", out |-> <<>>,
          estimated |-> {"q_max"}, self |-> self, df |-> rows]
    ELSE LET a == ApplyRows(rows, 1, self, self.critical_density,
                            self.max_capacity, <<>>)
         IN  IF rows = <<>> /\ Cardinality(cols) # 3
             THEN [status |-> "ValueError", out |-> <<>>, estimated |-> {},
                   self |-> a.self, df |-> rows]
             ELSE [status |-> "ok", out |-> a.out, estimated |-> {},
                   self |-> SelfAfterCall(a.self, a.out),
                   df |-> df_after_call(rows, a.out)]

\* Override arguments: absent, zero, or a value
OverrideKcrit == {None, 0, 25}
OverrideQmax == {None, 0, 1800}

\* A congested row, a free-flow row
RunRowVals ==
    {[fecha |-> 1, intensidad |-> 1200, vmed |-> 20, density |-> 60],
     [fecha |-> 2, intensidad |-> 1000, vmed |-> 100, density |-> 10]}

\* A frame holding just the columns the optimizer reads, and a frame as the
\* pipeline builds it
OptimizerColumns == {"intensidad", "vmed", "density"}
PipelineColumns == {"id", "fecha", "intensidad", "ocupacion", "vmed", "density"}

\* Calibration tables: none, one without a row of the sensor, one with rows
\* of two sensors
LimitTables ==
    {<<>>,
     <<[id |-> 2, inferred_limit |-> 50]>>,
     <<[id |-> 2, inferred_limit |-> 70], [id |-> 1, inferred_limit |-> 50]>>}

\* The optimizer is built with the base limit the caller looked up for its
\* sensor, or without a base_speed_limit argument
RunInit ==
    /\ limits_df \in LimitTables
    /\ sensor_id = 1
    /\ args \in [critical_density_override : OverrideKcrit,
                  max_capacity_override : OverrideQmax,
                  base_speed_limit :
                      {NotPassed, base_limit_lookup(limits_df, sensor_id)}]
    /\ instance = Construct(args)
    /\ series \in SeqUpTo(RunRowVals, MaxRunRows)
    /\ columns \in {OptimizerColumns, PipelineColumns}
    /\ cut \in 0..Len(series)
    /\ results = [s \in Slots |-> NotRun]

\* The frame a call is made on
InputOf(slot) ==
    CASE slot = "left" -> SubSeq(series, 1, cut)
      [] slot = "right" -> SubSeq(series, cut + 1, Len(series))
      [] OTHER -> series

\* One call of optimize_traffic.  "other" is made on an instance of its own;
\* every other call is made on the shared instance.  "left" and "right" are
\* made on slices of the series, the other calls on the series itself.
OptimizeTrafficCall ==
    \E slot \in Slots :
        /\ results[slot] = NotRun
        /\ slot = "again" => results["first"] # NotRun
        /\ \E r \in {optimize_traffic(IF slot = "other" THEN Construct(args)
                                        ELSE instance,
                                        InputOf(slot), columns)} :
               /\ results' = [results EXCEPT ![slot] =
                                 [status |-> r.status, out |-> r.out,
                                  estimated |-> r.estimated]]
               /\ instance' = IF slot = "other" THEN instance ELSE r.self
               /\ series' = IF slot \in {"left", "right"} THEN series
                             ELSE r.df
        /\ UNCHANGED <<args, columns, cut, limits_df, sensor_id>>
        /\ UNCHANGED <<optVars, featVars, kpiVars, cleanVars, dashVars>>

RunNext == OptimizeTrafficCall

InitRun == RunInit /\ OptIdle /\ FeatIdle /\ KpiIdle /\ CleanIdle
             /\ DashIdle

SpecRun == InitRun /\ [][RunNext]_vars

---------------------------------------------------------------------------
(* Properties of the calls                                                 *)

Ran(slot) == results[slot] # NotRun

\* Both parameters are supplied and are not zero
ParamsFixed ==
    /\ Truthy(args.critical_density_override)
    /\ Truthy(args.max_capacity_override)

C13_OverridePrecedence ==
    \A s \in Slots :
        Ran(s) =>
            /\ (args.critical_density_override # None
                 => "k_crit" \notin results[s].estimated)
            /\ (args.max_capacity_override # None
                 => "q_max" \notin results[s].estimated)

\* C14 - Estimation fallback (as claimed): a call on an optimizer built
\* without overrides completes with parameters and does not end in an error.
C14_EstimatorFallback ==
    \A s \in Slots :
        (/\ Ran(s)
         /\ args.critical_density_override = None
         /\ args.max_capacity_override = None
         /\ InputOf(s) # <<>>)
        => results[s].status = "ok"

\* C15 - Empty input (as claimed, in the case where both overrides are
\* supplied): a call on a frame without rows returns an empty frame and does
\* not raise.  (Without overrides a call ends as C14 describes.)
C15_EmptyInput ==
    \A s \in Slots :
        (ParamsFixed /\ Ran(s) /\ InputOf(s) = <<>>)
        => results[s].status = "ok" /\ results[s].out = <<>>

\* The rows of the calibration table that are of the pipeline's sensor
CalibrationRecords == {k \in DOMAIN limits_df : limits_df[k].id = sensor_id}

\* C22 - Default base limit: the base limit of the optimizer the pipeline
\* builds is the sensor's inferred_limit when the calibration table has a
\* record of the sensor, and 90 when there is no table, no record of the
\* sensor, or no base_speed_limit argument; it is the limit every returning
\* call gives a free-flow row.
C22_DefaultBaseLimit ==
    /\ (args.base_speed_limit # NotPassed /\ CalibrationRecords # {})
       => \E k \in CalibrationRecords :
             instance.base_speed_limit = limits_df[k].inferred_limit
    /\ (args.base_speed_limit = NotPassed \/ CalibrationRecords = {})
       => instance.base_speed_limit = 90
    /\ \A s \in Slots : \A i \in DOMAIN results[s].out :
          IsFreeFlow(InputOf(s)[i], instance.critical_density)
          => results[s].out[i].limite_dinamico = instance.base_speed_limit

\* C22 witness: the table has a record of the sensor after one of another
\* sensor, the looked-up limit was passed, and a call has returned a
\* free-flow row with it.
C22_Witness ==
    /\ Len(limits_df) = 2 /\ CalibrationRecords = {2}
    /\ args.base_speed_limit # NotPassed
    /\ results["first"].status = "ok"
    /\ \E i \in DOMAIN series :
          /\ IsFreeFlow(series[i], instance.critical_density)
          /\ results["first"].out[i].limite_dinamico
               = limits_df[2].inferred_limit

\* C24 - Frame of optimize_traffic: every call, however it ends, leaves the
\* caller's series and the instance's critical_density, max_capacity and
\* base_speed_limit as they were; a call that returns gives one output row
\* per input row, in the input's order, and every column of the input row
\* (flow, speed, density, timestamp) has its input value in the output row.
C24_Frame ==
    [][/\ series' = series
       /\ instance' = instance
       /\ \A s \in Slots :
            (results[s] = NotRun /\ results'[s].status = "ok")
            => LET in == InputOf(s)
                   out == results'[s].out
               IN  /\ Len(out) = Len(in)
                   /\ \A i \in DOMAIN in : \A c \in DOMAIN in[i] :
                         out[i][c] = in[i][c]]_vars

\* C24 witness: a call on a frame of two different rows has returned, with an
\* optimized flow above the measured one and a dynamic limit below the base
\* limit.
C24_Witness ==
    /\ results["first"].status = "ok"
    /\ Len(series) = 2 /\ series[1] # series[2]
    /\ \E i \in DOMAIN series :
          /\ results["first"].out[i].intensidad_opt
                > series[i].intensidad * Scale
          /\ results["first"].out[i].limite_dinamico
                < instance.base_speed_limit

---------------------------------------------------------------------------
(* DataPreprocessor.create_features                                        *)

\* A float: a rational n/d (d > 0), or one of NaN, +inf, -inf
Rat(n, d) == [kind |-> "num", n |-> n, d |-> d]
NaN == [kind |-> "nan", n |-> 0, d |-> 1]
PosInf == [kind |-> "inf", n |-> 1, d |-> 1]
NegInf == [kind |-> "inf", n |-> -1, d |-> 1]

IsNum(a) == a.kind = "num"
IsNaN(a) == a.kind = "nan"

\* Equality and order of two floats that are numbers; comparisons with NaN
\* are false
RatEq(a, b) == IsNum(a) /\ IsNum(b) /\ a.n * b.d = b.n * a.d
RatLe(a, b) == IsNum(a) /\ IsNum(b) /\ a.n * b.d <= b.n * a.d
RatLt(a, b) == IsNum(a) /\ IsNum(b) /\ a.n * b.d < b.n * a.d

min_effective_speed == 5    \* df['vmed'].clip(lower=5.0)
occ_factor_halves == 7      \* df['ocupacion'] * 3.5
density_cap == 400          \* df['density'].clip(upper=400.0)
hybrid_speed_threshold == 10    \* if v > 10 and q > 0

\* Method A: df['intensidad'] / df['vmed'].clip(lower=5.0)
density_qv(row) == Rat(row.intensidad, Max(row.vmed, min_effective_speed))

\* Method B: df['ocupacion'] * 3.5 when the column exists, else density_qv
density_occ(row, col) ==
    IF col # "absent"
    THEN IF IsNaN(row.ocupacion) THEN NaN
         ELSE Rat(row.ocupacion.n * occ_factor_halves, row.ocupacion.d * 2)
    ELSE density_qv(row)

\* Mutant of calculate_hybrid_density: the speed test is >= instead of >
calculate_hybrid_density_Ge(row, col) ==
    IF row.vmed >= hybrid_speed_threshold /\ row.intensidad > 0
    THEN density_qv(row)
    ELSE density_occ(row, col)

\* calculate_hybrid_density(row); row.get('density_occ', ...) never takes its
\* default because create_features always sets the density_occ column
calculate_hybrid_density(row, col) ==
    IF row.vmed > hybrid_speed_threshold /\ row.intensidad > 0
    THEN density_qv(row)
    ELSE density_occ(row, col)

\* Mutant of ClipUpper: the cap is forgotten
ClipUpper_None(x) == x

\* Series.clip(upper=400.0): NaN stays NaN
ClipUpper(x) ==
    IF IsNum(x) /\ x.n > density_cap * x.d THEN Rat(density_cap, 1) ELSE x

\* df.groupby('id')['density'].shift(-1) at position i: the density of the
\* next row of the same sensor, NaN when there is none
ShiftedDensity(rows, dens, i) ==
    LET later == {j \in (i + 1)..Len(rows) : rows[j].id = rows[i].id}
    IN  IF later = {} THEN NaN
        ELSE dens[CHOOSE j \in later : \A k \in later : j <= k]

\* .fillna(df['density'])
FillNa(x, y) == IF IsNaN(x) THEN y ELSE x

\* The frame create_features returns for `rows`
CreateFeatures(rows, col) ==
    LET dens == [i \in 1..Len(rows) |->
                    ClipUpper(calculate_hybrid_density(rows[i], col))]
    IN  [i \in 1..Len(rows) |->
            [id |-> rows[i].id, vmed |-> rows[i].vmed,
             intensidad |-> rows[i].intensidad,
             density_qv |-> density_qv(rows[i]),
             density_occ |-> density_occ(rows[i], col),
             density |-> dens[i],
             density_pred |-> FillNa(ShiftedDensity(rows, dens, i), dens[i])]]

\* Observations handed to create_features: cleaned rows (clean_data keeps
\* vmed >= 0 and intensidad >= 0).  Frames carry no 'fecha' column.
SensorIds == {1, 2}
FeatSpeedVals == {0, 8, 10, 11, 50}
FeatFlowVals == {0, 100, 6000}
OccVals == {0, 80, 120}

FeatRowsNoOcc ==
    [id : SensorIds, vmed : FeatSpeedVals, intensidad : FeatFlowVals]
FeatRowsOcc(occs) ==
    [id : SensorIds, vmed : FeatSpeedVals, intensidad : FeatFlowVals,
     ocupacion : occs]

\* The 'ocupacion' column is absent, present with readings, or present and
\* wholly NaN (clean_data's ffill/bfill leaves a NaN only in a column that
\* holds nothing else)
FeatInit ==
    /\ occ_col \in {"absent", "values", "nan"}
    /\ feat_in \in
         CASE occ_col = "absent" -> SeqUpTo(FeatRowsNoOcc, MaxFeatRows)
           [] occ_col = "values" ->
                SeqUpTo(FeatRowsOcc({Rat(o, 1) : o \in OccVals}), MaxFeatRows)
           [] occ_col = "nan" -> SeqUpTo(FeatRowsOcc({NaN}), MaxFeatRows)
    /\ feat_out = <<>>
    /\ feat_called = FALSE

\* create_features(df)
CreateFeaturesCall ==
    /\ feat_out' = CreateFeatures(feat_in, occ_col)
    /\ feat_called' = TRUE
    /\ UNCHANGED <<feat_in, occ_col>>
    /\ UNCHANGED <<optVars, kpiVars, runVars, cleanVars, dashVars>>

FeatNext == CreateFeaturesCall

InitFeat == FeatInit /\ OptIdle /\ KpiIdle /\ RunIdle /\ CleanIdle
             /\ DashIdle

SpecFeat == InitFeat /\ [][FeatNext]_vars

---------------------------------------------------------------------------
(* Properties of create_features                                           *)

FeatRowsOut == IF feat_called THEN DOMAIN feat_out ELSE {}

\* Occupancy of input row i is a reading in [0, 100]
OccInRange(i) ==
    /\ occ_col = "values"
    /\ RatLe(Rat(0, 1), feat_in[i].ocupacion)
    /\ RatLe(feat_in[i].ocupacion, Rat(100, 1))

\* Occupancy of input row i is a non-zero reading
OccNonZero(i) ==
    /\ occ_col = "values"
    /\ IsNum(feat_in[i].ocupacion)
    /\ feat_in[i].ocupacion.n # 0

\* Row i is in the regime where flow/speed is trusted
NormalRegime(i) == feat_in[i].vmed > 10 /\ feat_in[i].intensidad > 0

\* min(flow / max(speed, 5), 400)
QvCapped(i) ==
    LET v == IF feat_in[i].vmed > 5 THEN feat_in[i].vmed ELSE 5
        q == feat_in[i].intensidad
    IN  IF q > 400 * v THEN Rat(400, 1) ELSE Rat(q, v)

\* min(occupancy * 3.5, 400)
OccCapped(i) ==
    LET o == feat_in[i].ocupacion
    IN  IF 7 * o.n > 800 * o.d THEN Rat(400, 1) ELSE Rat(7 * o.n, 2 * o.d)

C7_HybridPriority ==
    \A i \in FeatRowsOut :
        /\ NormalRegime(i) => RatEq(feat_out[i].density, QvCapped(i))
        /\ (~NormalRegime(i) /\ OccNonZero(i))
           => RatEq(feat_out[i].density, OccCapped(i))

\* C7 witness: the observation flow=0, speed=0, occupancy=80 was given the
\* density 280.
C7_Witness ==
    \E i \in FeatRowsOut :
        /\ feat_in[i].intensidad = 0 /\ feat_in[i].vmed = 0
        /\ occ_col = "values" /\ RatEq(feat_in[i].ocupacion, Rat(80, 1))
        /\ RatEq(feat_out[i].density, Rat(280, 1))

\* C8 - Occupancy fallback (as claimed): in the low-speed / zero-flow regime,
\* when occupancy is absent or equal to zero, the density is
\* flow / max(speed, 5) capped at 400, so a zero occupancy reading never
\* overrides a positive flow/speed density.
C8_OccupancyFallback ==
    \A i \in FeatRowsOut :
        (/\ ~NormalRegime(i)
         /\ \/ occ_col = "absent"
            \/ occ_col = "values" /\ feat_in[i].ocupacion.n = 0)
        => RatEq(feat_out[i].density, QvCapped(i))

---------------------------------------------------------------------------
(* HourlyKPIAnalyzer                                                       *)

\* a - b and a * 100 for floats that are numbers
FSub(a, b) == Rat(a.n * b.d - b.n * a.d, a.d * b.d)
FTimes100(a) == IF IsNum(a) THEN Rat(a.n * 100, a.d) ELSE a

\* a / b for floats that are numbers, as pandas divides two columns:
\* x / 0 is +inf or -inf, 0 / 0 is NaN, and no error is raised
FDiv(a, b) ==
    IF b.n = 0
    THEN (IF a.n = 0 THEN NaN ELSE IF a.n > 0 THEN PosInf ELSE NegInf)
    ELSE IF b.n > 0 THEN Rat(a.n * b.d, a.d * b.n)
    ELSE Rat(-(a.n * b.d), -(a.d * b.n))

\* (twin - reality) / reality * 100
PctChange(t, r) == FTimes100(FDiv(FSub(t, r), r))

\* (reality - twin) / reality * 100
PctReduction(r, t) == FTimes100(FDiv(FSub(r, t), r))

\* Mutant of GuardedPct: the guard tests >= 0 instead of > 0
GuardedPct_Ge(t, r) == IF r.n >= 0 THEN PctChange(t, r) ELSE Rat(0, 1)

\* if reality_avg > 0: improvement = (twin - reality) / reality * 100
\* else: improvement = 0.0
GuardedPct(t, r) == IF r.n > 0 THEN PctChange(t, r) ELSE Rat(0, 1)

RECURSIVE SumAt(_, _, _)
SumAt(s, f, I) ==
    IF I = {} THEN 0
    ELSE LET i == CHOOSE j \in I : TRUE
         IN  s[i][f] + SumAt(s, f, I \ {i})

\* frame[column].mean() over the rows I (not empty) of series s
Mean(s, f, I) == Rat(SumAt(s, f, I), Cardinality(I))

\* frame[frame["hour"] == h] and frame[frame["hour"] <= h], as row indices
AtHour(s, h) == {i \in DOMAIN s : s[i].hour = h}
UpToHour(s, h) == {i \in DOMAIN s : s[i].hour <= h}

RECURSIVE SortedSeqOf(_)
SortedSeqOf(S) ==
    IF S = {} THEN <<>>
    ELSE LET x == CHOOSE y \in S : \A z \in S : y <= z
         IN  <<x>> \o SortedSeqOf(S \ {x})

\* One record of calculate_hourly_metrics: the groupby means of hour h and
\* the three unguarded percentages
HourlyRecord(h) ==
    LET R == AtHour(reality, h)
        T == AtHour(twin, h)
    IN  [hour |-> h,
         vmed |-> Mean(reality, "vmed", R),
         intensidad |-> Mean(reality, "intensidad", R),
         density |-> Mean(reality, "density", R),
         simulated_speed |-> Mean(twin, "simulated_speed", T),
         intensidad_opt |-> Mean(twin, "intensidad_opt", T),
         simulated_density |-> Mean(twin, "simulated_density", T),
         speed_improvement_pct |->
             PctChange(Mean(twin, "simulated_speed", T),
                       Mean(reality, "vmed", R)),
         flow_improvement_pct |->
             PctChange(Mean(twin, "intensidad_opt", T),
                       Mean(reality, "intensidad", R)),
         density_reduction_pct |->
             PctReduction(Mean(reality, "density", R),
                          Mean(twin, "simulated_density", T))]

\* calculate_hourly_metrics(): inner merge of the two groupbys on hour
calculate_hourly_metrics ==
    LET common == SortedSeqOf({h \in 0..23 :
                                 AtHour(reality, h) # {} /\ AtHour(twin, h) # {}})
    IN  [k \in 1..Len(common) |-> HourlyRecord(common[k])]

\* get_last_hour_improvement(current_hour)
get_last_hour_improvement(current_hour) ==
    LET R == AtHour(reality, current_hour)
        T == AtHour(twin, current_hour)
    IN  IF R = {} \/ T = {}
        THEN [speed_improvement |-> Rat(0, 1), reality_speed |-> Rat(0, 1),
              twin_speed |-> Rat(0, 1), hour |-> current_hour]
        ELSE [speed_improvement |->
                  GuardedPct(Mean(twin, "simulated_speed", T),
                             Mean(reality, "vmed", R)),
              reality_speed |-> Mean(reality, "vmed", R),
              twin_speed |-> Mean(twin, "simulated_speed", T),
              hour |-> current_hour]

\* get_cumulative_improvement(up_to_hour)
get_cumulative_improvement(up_to_hour) ==
    LET R == UpToHour(reality, up_to_hour)
        T == UpToHour(twin, up_to_hour)
    IN  IF R = {} \/ T = {}
        THEN [cumulative_improvement |-> Rat(0, 1), hours_analyzed |-> 0,
              reality_avg |-> Rat(0, 1), twin_avg |-> Rat(0, 1)]
        ELSE [cumulative_improvement |->
                  GuardedPct(Mean(twin, "simulated_speed", T),
                             Mean(reality, "vmed", R)),
              hours_analyzed |-> up_to_hour + 1,
              reality_avg |-> Mean(reality, "vmed", R),
              twin_avg |-> Mean(twin, "simulated_speed", T)]

\* generate_improvement_history(current_hour, window_size): one entry per
\* hour of range(start_hour, current_hour + 1)
generate_improvement_history(current_hour, window_size) ==
    LET start_hour == Max(0, current_hour - window_size + 1)
        n == Max(0, current_hour + 1 - start_hour)
    IN  [k \in 1..n |->
            LET hour == start_hour + k - 1
                R == AtHour(reality, hour)
                T == AtHour(twin, hour)
            IN  IF R # {} /\ T # {}
                THEN GuardedPct(Mean(twin, "simulated_speed", T),
                                Mean(reality, "vmed", R))
                ELSE Rat(0, 1)]

\* get_flow_metrics(current_hour)
get_flow_metrics(current_hour) ==
    LET last_hour == current_hour - 1
        R == AtHour(reality, last_hour)
        T == AtHour(twin, last_hour)
        zero == [flow_improvement |-> Rat(0, 1), reality_flow |-> Rat(0, 1),
                 twin_flow |-> Rat(0, 1)]
    IN  IF current_hour = 0 THEN zero
        ELSE IF R = {} \/ T = {} THEN zero
        ELSE [flow_improvement |->
                  GuardedPct(Mean(twin, "intensidad_opt", T),
                             Mean(reality, "intensidad", R)),
              reality_flow |-> Mean(reality, "intensidad", R),
              twin_flow |-> Mean(twin, "intensidad_opt", T)]

\* reduction = (reality - twin) / reality * 100 if reality > 0 else 0.0
GuardedReduction(r, t) == IF r.n > 0 THEN PctReduction(r, t) ELSE Rat(0, 1)

\* get_density_metrics(current_hour)
get_density_metrics(current_hour) ==
    LET last_hour == current_hour - 1
        R == AtHour(reality, last_hour)
        T == AtHour(twin, last_hour)
        zero == [density_reduction |-> Rat(0, 1),
                 reality_density |-> Rat(0, 1), twin_density |-> Rat(0, 1)]
    IN  IF current_hour = 0 THEN zero
        ELSE IF R = {} \/ T = {} THEN zero
        ELSE [density_reduction |->
                  GuardedReduction(Mean(reality, "density", R),
                                   Mean(twin, "simulated_density", T)),
              reality_density |-> Mean(reality, "density", R),
              twin_density |-> Mean(twin, "simulated_density", T)]

\* Series of the analyzer.  Each row carries the hour __init__ derives from
\* 'fecha'; the series are in time order, so hours never decrease.
Hours == 0..MaxHour
RealityRows ==
    {[hour |-> h, vmed |-> x[1], intensidad |-> x[2], density |-> x[3]] :
        h \in Hours, x \in {<<0, 0, 0>>, <<0, 0, 280>>, <<40, 600, 15>>}}
TwinRows ==
    {[hour |-> h, simulated_speed |-> x[1], intensidad_opt |-> x[2],
      simulated_density |-> x[3]] :
        h \in Hours, x \in {<<0, 0, 0>>, <<50, 660, 13>>}}

InTimeOrder(s) == \A i, j \in DOMAIN s : i < j => s[i].hour <= s[j].hour

default_window_size == 6    \* window_size: int = 6
HourArgs == 0..(MaxHour + 1)
WindowArgs == {2, default_window_size}

NoCall == [op |-> "none", hour |-> 0, window |-> 0]

KpiInit ==
    /\ reality \in {s \in SeqUpTo(RealityRows, MaxKpiRows) : InTimeOrder(s)}
    /\ twin \in {s \in SeqUpTo(TwinRows, MaxKpiRows) : InTimeOrder(s)}
    /\ kpi_call = NoCall
    /\ kpi_result = <<>>

\* The queries below write nothing to the analyzer: reality and twin are the
\* same before and after, and an answer depends on them and on the arguments
\* alone.  The model therefore follows one query per analyzer; a second
\* query would only reach a state a first query reaches.
CalculateHourlyMetrics ==
    /\ kpi_call = NoCall
    /\ kpi_call' = [op |-> "calculate_hourly_metrics", hour |-> 0, window |-> 0]
    /\ kpi_result' = calculate_hourly_metrics
    /\ UNCHANGED <<reality, twin, optVars, featVars, runVars, cleanVars, dashVars>>

GetLastHourImprovement ==
    \E h \in HourArgs :
        /\ kpi_call = NoCall
        /\ kpi_call' = [op |-> "get_last_hour_improvement", hour |-> h,
                        window |-> 0]
        /\ kpi_result' = get_last_hour_improvement(h)
        /\ UNCHANGED <<reality, twin, optVars, featVars, runVars, cleanVars, dashVars>>

GetCumulativeImprovement ==
    \E h \in HourArgs :
        /\ kpi_call = NoCall
        /\ kpi_call' = [op |-> "get_cumulative_improvement", hour |-> h,
                        window |-> 0]
        /\ kpi_result' = get_cumulative_improvement(h)
        /\ UNCHANGED <<reality, twin, optVars, featVars, runVars, cleanVars, dashVars>>

GenerateImprovementHistory ==
    \E h \in HourArgs, w \in WindowArgs :
        /\ kpi_call = NoCall
        /\ kpi_call' = [op |-> "generate_improvement_history", hour |-> h,
                        window |-> w]
        /\ kpi_result' = generate_improvement_history(h, w)
        /\ UNCHANGED <<reality, twin, optVars, featVars, runVars, cleanVars, dashVars>>

GetFlowMetrics ==
    \E h \in HourArgs :
        /\ kpi_call = NoCall
        /\ kpi_call' = [op |-> "get_flow_metrics", hour |-> h, window |-> 0]
        /\ kpi_result' = get_flow_metrics(h)
        /\ UNCHANGED <<reality, twin, optVars, featVars, runVars, cleanVars, dashVars>>

GetDensityMetrics ==
    \E h \in HourArgs :
        /\ kpi_call = NoCall
        /\ kpi_call' = [op |-> "get_density_metrics", hour |-> h, window |-> 0]
        /\ kpi_result' = get_density_metrics(h)
        /\ UNCHANGED <<reality, twin, optVars, featVars, runVars, cleanVars, dashVars>>

KpiNext ==
    \/ CalculateHourlyMetrics
    \/ GetLastHourImprovement
    \/ GetCumulativeImprovement
    \/ GenerateImprovementHistory
    \/ GetFlowMetrics
    \/ GetDensityMetrics

InitKpi == KpiInit /\ OptIdle /\ FeatIdle /\ RunIdle /\ CleanIdle
             /\ DashIdle

SpecKpi == InitKpi /\ [][KpiNext]_vars

---------------------------------------------------------------------------
(* Properties of HourlyKPIAnalyzer                                         *)

\* The float is exactly 0.0
IsZero(x) == IsNum(x) /\ x.n = 0

\* The mean of column f over the rows I of series s is <= 0
MeanNotPositive(s, f, I) == I # {} /\ SumAt(s, f, I) <= 0

\* C9 - KPI division guard in the hourly aggregate (as claimed): in every
\* record of calculate_hourly_metrics, a reality mean speed (flow, density)
\* <= 0 gives speed_improvement_pct (flow_improvement_pct,
\* density_reduction_pct) exactly 0.0, never NaN or infinite.
C9_HourlyGuard ==
    kpi_call.op = "calculate_hourly_metrics"
    => \A k \in DOMAIN kpi_result :
          LET rec == kpi_result[k]
              R == AtHour(reality, rec.hour)
          IN  /\ MeanNotPositive(reality, "vmed", R)
                 => IsZero(rec.speed_improvement_pct)
              /\ MeanNotPositive(reality, "intensidad", R)
                 => IsZero(rec.flow_improvement_pct)
              /\ MeanNotPositive(reality, "density", R)
                 => IsZero(rec.density_reduction_pct)

\* C10 - Guarded hour-scoped queries: get_last_hour_improvement,
\* get_cumulative_improvement, generate_improvement_history, get_flow_metrics
\* and get_density_metrics return the finite improvement 0.0 whenever the
\* reality mean of the metric is <= 0 or either series has no observation in
\* the queried hour(s).
C10_GuardedQueries ==
    LET h == kpi_call.hour
        Degenerate(f, R, T) ==
            R = {} \/ T = {} \/ MeanNotPositive(reality, f, R)
    IN  /\ kpi_call.op = "get_last_hour_improvement"
           => (Degenerate("vmed", AtHour(reality, h), AtHour(twin, h))
               => IsZero(kpi_result.speed_improvement))
        /\ kpi_call.op = "get_cumulative_improvement"
           => (Degenerate("vmed", UpToHour(reality, h), UpToHour(twin, h))
               => IsZero(kpi_result.cumulative_improvement))
        /\ kpi_call.op = "generate_improvement_history"
           => \A k \in DOMAIN kpi_result :
                 LET hour == Max(0, h - kpi_call.window + 1) + k - 1
                 IN  Degenerate("vmed", AtHour(reality, hour), AtHour(twin, hour))
                     => IsZero(kpi_result[k])
        /\ kpi_call.op = "get_flow_metrics"
           => (Degenerate("intensidad", AtHour(reality, h - 1), AtHour(twin, h - 1))
               => IsZero(kpi_result.flow_improvement))
        /\ kpi_call.op = "get_density_metrics"
           => (Degenerate("density", AtHour(reality, h - 1), AtHour(twin, h - 1))
               => IsZero(kpi_result.density_reduction))

\* C10 witness: get_last_hour_improvement answered 0.0 for an hour in which
\* both series have observations, the reality mean speed is 0 and the twin
\* mean speed is positive.
C10_Witness ==
    /\ kpi_call.op = "get_last_hour_improvement"
    /\ MeanNotPositive(reality, "vmed", AtHour(reality, kpi_call.hour))
    /\ AtHour(twin, kpi_call.hour) # {}
    /\ SumAt(twin, "simulated_speed", AtHour(twin, kpi_call.hour)) > 0
    /\ IsZero(kpi_result.speed_improvement)

\* Both series have observations in hour H
HasRecord(H) == AtHour(reality, H) # {} /\ AtHour(twin, H) # {}

\* An answer [improvement, reality mean, twin mean] reports on hour H of
\* column f (reality) and g (twin): it carries the two means of that hour
\* and, when the reality mean is positive, the percentage pct of that hour's
\* record of calculate_hourly_metrics
ReportsOn(improvement, reality_mean, twin_mean, H, f, g, pct) ==
    HasRecord(H)
    => /\ RatEq(reality_mean, Mean(reality, f, AtHour(reality, H)))
       /\ RatEq(twin_mean, Mean(twin, g, AtHour(twin, H)))
       /\ (SumAt(reality, f, AtHour(reality, H)) > 0
           => RatEq(improvement, pct))

\* C23 - Hour-scoped queries share one hour (as claimed): for a current_hour
\* h, get_last_hour_improvement names the hour it reports on in its answer;
\* get_flow_metrics(h) and get_density_metrics(h) report on that same hour,
\* each with the percentage of that hour's record of
\* calculate_hourly_metrics when the reality mean is positive.
C23_SameHour ==
    LET h == kpi_call.hour
        H == get_last_hour_improvement(h).hour
    IN  /\ kpi_call.op = "get_last_hour_improvement"
           => ReportsOn(kpi_result.speed_improvement, kpi_result.reality_speed,
                        kpi_result.twin_speed, kpi_result.hour,
                        "vmed", "simulated_speed",
                        HourlyRecord(kpi_result.hour).speed_improvement_pct)
        /\ kpi_call.op = "get_flow_metrics"
           => ReportsOn(kpi_result.flow_improvement, kpi_result.reality_flow,
                        kpi_result.twin_flow, H, "intensidad", "intensidad_opt",
                        HourlyRecord(H).flow_improvement_pct)
        /\ kpi_call.op = "get_density_metrics"
           => ReportsOn(kpi_result.density_reduction,
                        kpi_result.reality_density, kpi_result.twin_density,
                        H, "density", "simulated_density",
                        HourlyRecord(H).density_reduction_pct)

---------------------------------------------------------------------------
(* DataPreprocessor.clean_data                                             *)

\* A raw observation.  fecha is the timestamp after pd.to_datetime(...,
\* errors='coerce'): a number, or NaN for NaT (a date that does not parse).
\* vmed, intensidad and ocupacion are floats, NaN when the reading is missing.
RawRow(id, fecha, vmed, intensidad, ocupacion) ==
    [id |-> id, fecha |-> fecha, vmed |-> vmed, intensidad |-> intensidad,
     ocupacion |-> ocupacion]

\* 1. Filter by sensor id, when sensor_ids is not None
FilterSensors(rows, sids) ==
    IF sids.given THEN SelectSeq(rows, LAMBDA r : r.id \in sids.ids)
    ELSE rows

\* Order of sort_values(by=['id', 'fecha']): NaT sorts last within an id
KeyLe(a, b) ==
    \/ a.id < b.id
    \/ /\ a.id = b.id
       /\ \/ IsNaN(b.fecha)
          \/ IsNum(a.fecha) /\ IsNum(b.fecha) /\ a.fecha.n <= b.fecha.n

RECURSIVE InsertByKey(_, _)
InsertByKey(x, s) ==
    IF s = <<>> THEN <<x>>
    ELSE IF KeyLe(Head(s), x) THEN <<Head(s)>> \o InsertByKey(x, Tail(s))
    ELSE <<x>> \o s

RECURSIVE SortRows(_, _)
SortRows(rows, acc) ==
    IF rows = <<>> THEN acc
    ELSE SortRows(Tail(rows), InsertByKey(Head(rows), acc))

\* 3. df_clean.sort_values(by=['id', 'fecha']); rows of equal key keep their
\* order
sort_values(rows) == SortRows(rows, <<>>)

\* x >= 0 on a float: false for NaN
GeZero(x) == IsNum(x) /\ x.n >= 0

\* 4. Keep the rows with vmed >= 0 and intensidad >= 0
FilterLogical(rows) ==
    SelectSeq(rows, LAMBDA r : GeZero(r.vmed) /\ GeZero(r.intensidad))

SetMax(S) == CHOOSE x \in S : \A y \in S : y <= x
SetMin(S) == CHOOSE x \in S : \A y \in S : x <= y

\* The point k steps out of m on the line from a to b
Lerp(a, b, k, m) ==
    Rat(a.n * b.d * m + (b.n * a.d - a.n * b.d) * k, a.d * b.d * m)

\* 5. groupby('id')[col].transform(lambda x: x.interpolate(method='linear')):
\* within one sensor a NaN between two readings is placed on the line
\* between them (equal spacing), a NaN after the last reading takes that
\* reading, a NaN before the first reading stays
Interpolate(rows, col) ==
    [i \in DOMAIN rows |->
        IF ~IsNaN(rows[i][col]) THEN rows[i]
        ELSE LET same == {j \in DOMAIN rows : rows[j].id = rows[i].id}
                 prevs == {j \in same : j < i /\ ~IsNaN(rows[j][col])}
                 nexts == {j \in same : j > i /\ ~IsNaN(rows[j][col])}
             IN  IF prevs = {} THEN rows[i]
                 ELSE IF nexts = {}
                 THEN [rows[i] EXCEPT ![col] = rows[SetMax(prevs)][col]]
                 ELSE LET p == SetMax(prevs)
                          n == SetMin(nexts)
                          k == Cardinality({j \in same : p < j /\ j <= i})
                          m == Cardinality({j \in same : p < j /\ j <= n})
                      IN  [rows[i] EXCEPT
                             ![col] = Lerp(rows[p][col], rows[n][col], k, m)]]

\* ffill of one column over the whole frame
Ffill(rows, col) ==
    [i \in DOMAIN rows |->
        LET prevs == {j \in DOMAIN rows : j < i /\ ~IsNaN(rows[j][col])}
        IN  IF IsNaN(rows[i][col]) /\ prevs # {}
            THEN [rows[i] EXCEPT ![col] = rows[SetMax(prevs)][col]]
            ELSE rows[i]]

\* bfill of one column over the whole frame
Bfill(rows, col) ==
    [i \in DOMAIN rows |->
        LET nexts == {j \in DOMAIN rows : j > i /\ ~IsNaN(rows[j][col])}
        IN  IF IsNaN(rows[i][col]) /\ nexts # {}
            THEN [rows[i] EXCEPT ![col] = rows[SetMin(nexts)][col]]
            ELSE rows[i]]

\* The columns that can hold NaN
FloatColumns == <<"fecha", "vmed", "intensidad", "ocupacion">>

RECURSIVE FillColumns(_, _)
FillColumns(rows, cols) ==
    IF cols = <<>> THEN rows
    ELSE FillColumns(Bfill(Ffill(rows, Head(cols)), Head(cols)), Tail(cols))

\* 6. df_clean.ffill().bfill(): every column, over the whole frame
FfillBfill(rows) == FillColumns(rows, FloatColumns)

\* clean_data(df)
clean_data(rows, sids) ==
    IF rows = <<>> THEN rows
    ELSE FfillBfill(
           Interpolate(
             Interpolate(FilterLogical(sort_values(FilterSensors(rows, sids))),
                         "vmed"),
             "intensidad"))

\* Raw observations: two readings of sensor 1 with the same timestamp, a
\* later reading of sensor 1 without occupancy, a reading with a missing
\* speed, one with a negative flow, one whose date does not parse, and
\* readings of sensors 2 and 3
RawRowVals ==
    {RawRow(1, Rat(1, 1), Rat(50, 1), Rat(100, 1), Rat(10, 1)),
     RawRow(1, Rat(1, 1), Rat(60, 1), Rat(200, 1), Rat(20, 1)),
     RawRow(1, Rat(2, 1), Rat(70, 1), Rat(300, 1), NaN),
     RawRow(1, Rat(3, 1), NaN, Rat(100, 1), Rat(10, 1)),
     RawRow(1, Rat(4, 1), Rat(50, 1), Rat(-1, 1), Rat(10, 1)),
     RawRow(1, NaN, Rat(50, 1), Rat(100, 1), Rat(10, 1)),
     RawRow(2, Rat(1, 1), Rat(40, 1), Rat(50, 1), Rat(30, 1)),
     RawRow(3, Rat(1, 1), Rat(40, 1), Rat(50, 1), Rat(30, 1))}

CleanInit ==
    /\ raw \in SeqUpTo(RawRowVals, MaxCleanRows)
    /\ sensor_ids \in {[given |-> FALSE, ids |-> {}],
                        [given |-> TRUE, ids |-> {1, 2}]}
    /\ cleaned = <<>>
    /\ clean_called = FALSE

\* clean_data(raw)
CleanDataCall ==
    /\ ~clean_called
    /\ cleaned' = clean_data(raw, sensor_ids)
    /\ clean_called' = TRUE
    /\ UNCHANGED <<raw, sensor_ids>>
    /\ UNCHANGED <<optVars, featVars, kpiVars, runVars, dashVars>>

CleanNext == CleanDataCall

InitClean == CleanInit /\ OptIdle /\ FeatIdle /\ KpiIdle /\ RunIdle
             /\ DashIdle

SpecClean == InitClean /\ [][CleanNext]_vars

---------------------------------------------------------------------------
(* Properties of clean_data                                                *)

\* C20 - Timestamp uniqueness (as claimed, for a frame whose dates all
\* parse): in the frame clean_data returns, the rows of one sensor have
\* strictly ascending timestamps, so no two of them share a timestamp.
C20_TimestampUnique ==
    (clean_called /\ \A k \in DOMAIN raw : IsNum(raw[k].fecha))
    => \A i, j \in DOMAIN cleaned :
          (i < j /\ cleaned[i].id = cleaned[j].id)
          => RatLt(cleaned[i].fecha, cleaned[j].fecha)

\* Every date of the raw frame parses
DatesParse == \A k \in DOMAIN raw : IsNum(raw[k].fecha)

\* The float is missing or is not negative
NotNegative(x) == IsNaN(x) \/ x.n >= 0

\* Row k of the raw frame has a missing speed or flow, no negative reading,
\* and another row of the same sensor has both readings
IsGap(k) ==
    /\ IsNaN(raw[k].vmed) \/ IsNaN(raw[k].intensidad)
    /\ NotNegative(raw[k].vmed) /\ NotNegative(raw[k].intensidad)
    /\ \E j \in DOMAIN raw :
          /\ j # k /\ raw[j].id = raw[k].id
          /\ GeZero(raw[j].vmed) /\ GeZero(raw[j].intensidad)

\* C21 - Gap filling (as claimed, for a frame whose dates all parse, without
\* negative readings and without sensor filter): an observation whose flow
\* or mean speed is missing is kept by clean_data with the value filled in,
\* so the cleaned frame has as many rows as the raw frame and no missing
\* flow or speed.
C21_GapFilling ==
    (/\ clean_called /\ ~sensor_ids.given /\ DatesParse
     /\ \A k \in DOMAIN raw :
           NotNegative(raw[k].vmed) /\ NotNegative(raw[k].intensidad)
     /\ \E k \in DOMAIN raw : IsGap(k))
    => /\ Len(cleaned) = Len(raw)
       /\ \A i \in DOMAIN cleaned :
            IsNum(cleaned[i].vmed) /\ IsNum(cleaned[i].intensidad)

\* The rows of one sensor, in frame order
OfSensor(rows, id) == SelectSeq(rows, LAMBDA r : r.id = id)

\* C29 - Sensor isolation (as claimed, for a frame whose dates all parse):
\* the cleaned rows of a sensor are what clean_data returns for that sensor's
\* raw rows alone, whatever other sensors the raw frame holds.
C29_SensorIsolation ==
    (clean_called /\ DatesParse) =>
        \A id \in {raw[k].id : k \in DOMAIN raw} :
            OfSensor(cleaned, id) = clean_data(OfSensor(raw, id), sensor_ids)

---------------------------------------------------------------------------
(* The dashboard (src/frontend/app.py): session state and its events.      *)
(* Streamlit runs the script from the top on every event; an event that    *)
(* arrives while the animation loop runs ends that run.                    *)

MaxFrames == 125    \* rows of the longest resampled day (one per minute)

Sensors == {1, 2}
Dates == {1, 2}

\* len(daily_data_resampled): one row per minute from the first to the last
\* observation of the selected sensor on the target date
FrameCounts == {1, 61, MaxFrames}

\* len(daily_data_resampled) of the script run that follows the event
FramesOf(sensor, date) == day_frames[sensor][date]

\* The state after the first run of the script: the date input holds its
\* default, the sidebar shows the first sensor and the sync stores it
DashInit ==
    /\ simulation_running = FALSE
    /\ selected_sensor = 1
    /\ current_frame_idx = 0
    /\ last_date = 1
    /\ day_frames \in [Sensors -> [Dates -> FrameCounts]]
    /\ loop_i = None

\* The script run gets past daily_data_resampled.iloc[current_frame] and so
\* renders START / PAUSE and reaches the animation logic
Rendered == current_frame_idx < FramesOf(selected_sensor, last_date)

\* "Reset if Date changes"
DateChange ==
    \E d \in Dates \ {last_date} :
        /\ simulation_running' = FALSE
        /\ current_frame_idx' = 0
        /\ last_date' = d
        /\ loop_i' = None
        /\ UNCHANGED <<selected_sensor, day_frames>>
        /\ UNCHANGED <<optVars, featVars, kpiVars, runVars, cleanVars>>

\* "Handle Selection Event" of the map: the session's sensor is replaced and
\* the script rerun; the sidebar selectbox is then built with the index of
\* that sensor, so the sidebar sync finds nothing to change
MapSensorSelect ==
    \E s \in Sensors \ {selected_sensor} :
        /\ selected_sensor' = s
        /\ loop_i' = None
        /\ UNCHANGED <<simulation_running, current_frame_idx, last_date,
                       day_frames>>
        /\ UNCHANGED <<optVars, featVars, kpiVars, runVars, cleanVars>>

\* "Sync Sidebar -> Session State (if changed manually)"
SidebarSensorChange ==
    \E s \in Sensors \ {selected_sensor} :
        /\ selected_sensor' = s
        /\ simulation_running' = FALSE
        /\ current_frame_idx' = 0
        /\ loop_i' = None
        /\ UNCHANGED <<last_date, day_frames>>
        /\ UNCHANGED <<optVars, featVars, kpiVars, runVars, cleanVars>>

\* The "-1 Hr" button
MinusHour ==
    LET current_hour == current_frame_idx \div 60
        current_minute == current_frame_idx % 60
        new_idx == IF current_minute > 5 THEN current_hour * 60
                   ELSE (current_hour - 1) * 60
    IN  /\ current_frame_idx' = Max(0, new_idx)
        /\ loop_i' = None
        /\ UNCHANGED <<simulation_running, selected_sensor, last_date,
                       day_frames>>
        /\ UNCHANGED <<optVars, featVars, kpiVars, runVars, cleanVars>>

\* The "+1 Hr" button
PlusHour ==
    LET current_hour == current_frame_idx \div 60
        new_idx == (current_hour + 1) * 60
    IN  /\ current_frame_idx'
             = Min(FramesOf(selected_sensor, last_date) - 1, new_idx)
        /\ loop_i' = None
        /\ UNCHANGED <<simulation_running, selected_sensor, last_date,
                       day_frames>>
        /\ UNCHANGED <<optVars, featVars, kpiVars, runVars, cleanVars>>

\* The START button
Start ==
    /\ Rendered
    /\ ~simulation_running
    /\ simulation_running' = TRUE
    /\ current_frame_idx' = 0
    /\ loop_i' = None
    /\ UNCHANGED <<selected_sensor, last_date, day_frames>>
    /\ UNCHANGED <<optVars, featVars, kpiVars, runVars, cleanVars>>

\* The PAUSE button
Pause ==
    /\ Rendered
    /\ simulation_running
    /\ simulation_running' = FALSE
    /\ loop_i' = None
    /\ UNCHANGED <<current_frame_idx, selected_sensor, last_date, day_frames>>
    /\ UNCHANGED <<optVars, featVars, kpiVars, runVars, cleanVars>>

\* One iteration of `for i in range(start_idx, len(daily_data_resampled))`,
\* the first one with i = start_idx = current_frame_idx; or the end of the
\* loop, which stops the simulation and reruns the script
AnimationStep ==
    /\ Rendered
    /\ simulation_running
    /\ LET i == IF loop_i = None THEN current_frame_idx ELSE loop_i
       IN  IF i < FramesOf(selected_sensor, last_date)
           THEN /\ current_frame_idx' = i
                /\ loop_i' = i + 1
                /\ UNCHANGED simulation_running
           ELSE /\ simulation_running' = FALSE
                /\ loop_i' = None
                /\ UNCHANGED current_frame_idx
    /\ UNCHANGED <<selected_sensor, last_date, day_frames>>
    /\ UNCHANGED <<optVars, featVars, kpiVars, runVars, cleanVars>>

DashNext ==
    \/ DateChange
    \/ MapSensorSelect
    \/ SidebarSensorChange
    \/ MinusHour
    \/ PlusHour
    \/ Start
    \/ Pause
    \/ AnimationStep

InitDash == DashInit /\ OptIdle /\ FeatIdle /\ KpiIdle /\ RunIdle /\ CleanIdle

SpecDash == InitDash /\ [][DashNext]_vars

===========================================================================
